---- MODULE Spec2Model ----
(***************************************************************************)
(* Shader generation framework of Ishiiruka (VideoCommon):                 *)
(*   - ShaderUid<uid_data>   (ShaderGenCommon.h)                           *)
(*   - UidChecker<UidT,CodeT> (ShaderGenCommon.h)                          *)
(*   - GenerateEncodingShader and the Write*Encoder generators             *)
(*     (TextureConversionShader.cpp)                                       *)
(***************************************************************************)
EXTENDS Integers, Sequences, FiniteSets, TLC

(***************************************************************************)
(* Bounds of the model.                                                    *)
(***************************************************************************)
\* sizeof(uid_data) ranges over 1..MaxDataSize (the template takes any struct)
MaxDataSize == 5
\* values a byte of a uid takes in the model
MaxByte == 1
\* the static failure counter of AddToIndexAndCheck is followed up to here
MaxFailures == 2
\* the scratch buffer, in cells of one WRITE each: room for every generator
TextSize == 70
\* undersized scratch buffers: SmallestText .. SmallestText + SmallTextSpan
SmallestText == 24
SmallTextSpan == 4
SmallTextSizes == SmallestText..(SmallestText + SmallTextSpan)
\* GenerateEncodingShader calls followed
MaxCalls == 2
MaxCanaryCalls == 1

Bytes == 0..MaxByte

\* shader texts handed to the checker (CodeT::GetBuffer())
Texts == {"codeA", "codeB"}
\* shader_type and dump_prefix arguments of AddToIndexAndCheck
ShaderTypes == {"Pixel"}
DumpPrefixes == {"ps"}
\* contents of the memory that follows a uid object (read by the hex dump)
AdjacentBytes == {0, 255}

VARIABLES
    layout,        \* the uid_data type: sizeof, StartValue(), NumValues()
    m_uids,        \* UidChecker::m_uids
    m_shaders,     \* UidChecker::m_shaders
    num_failures,  \* static int num_failures of AddToIndexAndCheck
    lastDump,      \* what the last collision wrote to its dump file
    error_log,     \* number of ERROR_LOG lines written
    lastCall,      \* the last UidChecker call and the path it took
    uid,           \* the two ShaderUid objects A and B: values and HASH
    uidOp,         \* the last operation performed on each of them
    textSize,      \* sizeof(text), in cells of one WRITE each
    text,          \* static char text[]
    IntensityConstantAdded,
    s_incrementSampleXCount,
    locale,        \* the locale of the calling thread
    lastGen,       \* the last GenerateEncodingShader call: what it returned and raised
    returned,      \* per format code, the texts returned for it so far
    calls,         \* number of GenerateEncodingShader calls made
    quant,         \* the last WriteToBitDepth statement emitted and evaluated
    pixel,         \* the last evaluation of a generated program on sampled texels
    thread,        \* per thread: its position in GenerateEncodingShader and its p
    mutex,         \* the thread holding the lock around GenerateEncodingShader
    serialized,    \* whether the callers take that lock
    current,       \* the thread that ran last
    preemptions    \* how often a thread was interrupted inside a call

checkerVars == <<m_uids, m_shaders, num_failures, lastDump, error_log, lastCall>>
uidVars == <<uid, uidOp>>
genVars == <<textSize, text, IntensityConstantAdded, s_incrementSampleXCount, locale,
             lastGen, returned, calls>>
shaderVars == <<quant, pixel>>
threadVars == <<thread, mutex, serialized, current, preemptions>>
vars == <<layout, checkerVars, uidVars, genVars, shaderVars, threadVars>>

(***************************************************************************)
(* ShaderUid<uid_data>                                                     *)
(***************************************************************************)
\* the uid_data types: size in bytes and the meaningful range it declares
Layouts ==
    { [size |-> s, start |-> st, num |-> s - st] :
        s \in 1..MaxDataSize, st \in {0, 1} } \ { [size |-> 1, start |-> 1, num |-> 0] }

\* GetUidDataSize
GetUidDataSize(l) == l.size

\* the meaningful byte range [StartValue, StartValue + NumValues)
Range(l) == l.start .. (l.start + l.num - 1)

\* operator== : memcmp over the meaningful range is 0
UidEq(l, a, b) == \A i \in Range(l) : a.values[i] = b.values[i]

\* operator!= : memcmp over the meaningful range is not 0
UidNeq(l, a, b) == \E i \in Range(l) : a.values[i] # b.values[i]

\* operator< : memcmp over the meaningful range is negative
UidLess(l, a, b) ==
    \E i \in Range(l) :
        /\ a.values[i] < b.values[i]
        /\ \A j \in Range(l) : j < i => a.values[j] = b.values[j]

ZeroValues(l) == [i \in 0..(l.size - 1) |-> 0]

\* the uids a caller hands to the checker: all zero, the ones that differ in
\* the first meaningful byte, and (when the type excludes a leading region)
\* the one that differs from all zero only in the excluded byte 0
InputUids(l) ==
    { u \in { [values |-> [i \in 0..(l.size - 1) |->
                             IF i = l.start THEN b1 ELSE IF i = 0 THEN b0 ELSE 0],
               HASH |-> 0] : b0 \in {0, 1}, b1 \in {0, 1} } :
        ~(l.start # 0 /\ u.values[0] = 1 /\ u.values[l.start] # 0) }

(***************************************************************************)
(* UidChecker<UidT, CodeT>                                                 *)
(***************************************************************************)
NoUid == [values |-> <<>>, HASH |-> 0]
NoDump == [n |-> 0, prefix |-> "", uid |-> NoUid, old |-> "", new |-> "", groups |-> <<>>]
\* first: the call took the first-occurrence path; dumped: it wrote a dump;
\* second: the call before it was the first occurrence of an equal uid
NoCall == [op |-> "none", uid |-> NoUid, text |-> "",
           first |-> FALSE, dumped |-> FALSE, second |-> FALSE]

\* faulty variant: the scan compares whole objects instead of using operator==
uid_is_indexed_WholeObject(l, uids, new_uid) ==
    \E i \in 1..Len(uids) : uids[i] = new_uid

\* std::find(m_uids.begin(), m_uids.end(), new_uid) != m_uids.end()
uid_is_indexed(l, uids, new_uid) ==
    \E i \in 1..Len(uids) : UidEq(l, uids[i], new_uid)

\* std::map::find : the key equivalent to u under operator<
MapKeys(l, m, u) ==
    { k \in DOMAIN m : ~UidLess(l, k, u) /\ ~UidLess(l, u, k) }
MapHas(l, m, u) == MapKeys(l, m, u) # {}
MapKey(l, m, u) == CHOOSE k \in MapKeys(l, m, u) : TRUE

\* m_shaders[new_uid] read: the stored text, a new empty entry when absent
MapGet(l, m, u) == IF MapHas(l, m, u) THEN m[MapKey(l, m, u)] ELSE ""
MapAfterGet(l, m, u) ==
    IF MapHas(l, m, u) THEN m
    ELSE [k \in (DOMAIN m) \cup {u} |-> IF k = u THEN "" ELSE m[k]]

\* m_shaders[new_uid] = text
MapPut(l, m, u, t) ==
    IF MapHas(l, m, u)
    THEN [m EXCEPT ![MapKey(l, m, u)] = t]
    ELSE [k \in (DOMAIN m) \cup {u} |-> IF k = u THEN t ELSE m[k]]

\* byte j counted from the start of the uid object; past the object it is
\* whatever the adjacent memory holds
ByteAt(l, u, adj, j) == IF j < l.size THEN u.values[j] ELSE adj

\* ((u32*)&new_uid.GetUidData())[i], as printed by setw(8) << hex: the four
\* bytes of the little-endian word, most significant first
WordAt(l, u, adj, i) ==
    << ByteAt(l, u, adj, 4 * i + 3), ByteAt(l, u, adj, 4 * i + 2),
       ByteAt(l, u, adj, 4 * i + 1), ByteAt(l, u, adj, 4 * i) >>

\* last_value of the "Values i - last_value" header
LastValue(l, i) == IF i + 3 < l.size - 1 THEN i + 3 ELSE l.size

\* faulty variant: the loop stops one word early (i < GetUidDataSize() - 1)
RECURSIVE HexDump_StopsEarly(_, _, _, _, _)
HexDump_StopsEarly(l, u, adj, i, acc) ==
    IF i + 1 >= GetUidDataSize(l) THEN acc
    ELSE LET w == [i |-> i, value |-> WordAt(l, u, adj, i)]
             acc2 == IF i % 4 = 0
                     THEN Append(acc, [first |-> i, last |-> LastValue(l, i),
                                       words |-> <<w>>])
                     ELSE [acc EXCEPT ![Len(acc)].words = Append(@, w)]
         IN HexDump_StopsEarly(l, u, adj, i + 1, acc2)

\* the hex dump loop: one word per i in 0..GetUidDataSize()-1, a header and
\* a new line every fourth word
RECURSIVE HexDump(_, _, _, _, _)
HexDump(l, u, adj, i, acc) ==
    IF i >= GetUidDataSize(l) THEN acc
    ELSE LET w == [i |-> i, value |-> WordAt(l, u, adj, i)]
             acc2 == IF i % 4 = 0
                     THEN Append(acc, [first |-> i, last |-> LastValue(l, i),
                                       words |-> <<w>>])
                     ELSE [acc EXCEPT ![Len(acc)].words = Append(@, w)]
         IN HexDump(l, u, adj, i + 1, acc2)

\* faulty variant: only the sequence is cleared
Invalidate_KeepsShaders ==
    /\ m_shaders' = m_shaders
    /\ m_uids' = << >>
    /\ lastCall' = [NoCall EXCEPT !.op = "Invalidate"]
    /\ UNCHANGED <<layout, num_failures, lastDump, error_log, uidVars, genVars, shaderVars, threadVars>>

\* faulty variant: only the mapping is cleared
Invalidate_KeepsUids ==
    /\ m_shaders' = << >>
    /\ m_uids' = m_uids
    /\ lastCall' = [NoCall EXCEPT !.op = "Invalidate"]
    /\ UNCHANGED <<layout, num_failures, lastDump, error_log, uidVars, genVars, shaderVars, threadVars>>

Invalidate ==
    /\ m_shaders' = << >>
    /\ m_uids' = << >>
    /\ lastCall' = [NoCall EXCEPT !.op = "Invalidate"]
    /\ UNCHANGED <<layout, num_failures, lastDump, error_log, uidVars, genVars, shaderVars, threadVars>>

AddToIndexAndCheck(new_code, new_uid, shader_type, dump_prefix, adj) ==
    LET second == lastCall.first /\ UidEq(layout, lastCall.uid, new_uid)
    IN
    IF ~uid_is_indexed(layout, m_uids, new_uid)
    THEN /\ m_uids' = Append(m_uids, new_uid)
         /\ m_shaders' = MapPut(layout, m_shaders, new_uid, new_code)
         /\ lastCall' = [op |-> "Add", uid |-> new_uid, text |-> new_code,
                         first |-> TRUE, dumped |-> FALSE, second |-> second]
         /\ UNCHANGED <<layout, num_failures, lastDump, error_log, uidVars, genVars, shaderVars, threadVars>>
    ELSE LET old_code == MapGet(layout, m_shaders, new_uid)
         IN /\ m_shaders' = MapAfterGet(layout, m_shaders, new_uid)
            /\ m_uids' = m_uids
            /\ IF old_code # new_code
               THEN /\ num_failures < MaxFailures
                    /\ num_failures' = num_failures + 1
                    /\ lastDump' = [n |-> num_failures + 1, prefix |-> dump_prefix,
                                    uid |-> new_uid,
                                    old |-> old_code, new |-> new_code,
                                    groups |-> HexDump(layout, new_uid, adj, 0, <<>>)]
                    /\ error_log' = error_log + 1
                    /\ lastCall' = [op |-> "Add", uid |-> new_uid, text |-> new_code,
                                    first |-> FALSE, dumped |-> TRUE, second |-> second]
               ELSE /\ lastCall' = [op |-> "Add", uid |-> new_uid, text |-> new_code,
                                    first |-> FALSE, dumped |-> FALSE, second |-> second]
                    /\ UNCHANGED <<num_failures, lastDump, error_log>>
            /\ UNCHANGED <<layout, uidVars, genVars, shaderVars, threadVars>>

Check ==
    \E new_code \in Texts, new_uid \in InputUids(layout),
       shader_type \in ShaderTypes, dump_prefix \in DumpPrefixes, adj \in AdjacentBytes :
        AddToIndexAndCheck(new_code, new_uid, shader_type, dump_prefix, adj)

InitChecker ==
    /\ m_uids = << >>
    /\ m_shaders = << >>
    /\ num_failures = 0
    /\ lastDump = NoDump
    /\ error_log = 0
    /\ lastCall = NoCall

\* GenerateEncodingShader is not called while the checker or a uid is exercised
IdleGen ==
    /\ textSize = TextSize
    /\ text = [i \in 0..(TextSize - 1) |-> [fmt |-> "", a |-> "", b |-> "", n |-> 0, sep |-> ""]]
    /\ IntensityConstantAdded = FALSE
    /\ s_incrementSampleXCount = 0
    /\ locale = "C"
    /\ lastGen = [format |-> "", ret |-> << >>, alerts |-> << >>, p |-> 0, overrun |-> FALSE]
    /\ returned = << >>
    /\ calls = 0

\* no generated statement or program is being evaluated
NoQuant == [depth |-> 0, num |-> 0, den |-> 1, emitted |-> FALSE, multiplier |-> 0, level |-> 0]
NoPixel == [format |-> "", depth |-> << >>, xb |-> 0, taken |-> "",
            expanded |-> << >>, ocol0 |-> << >>, conditionals |-> 0]
IdleShader ==
    /\ quant = NoQuant
    /\ pixel = NoPixel

\* GenerateEncodingShader is called from one thread
Threads == {1, 2}
NoThread == [pc |-> "idle", format |-> "", i |-> 0, p |-> 0, ret |-> << >>,
             alerts |-> << >>, alone |-> << >>]
IdleThreads ==
    /\ thread = [t \in Threads |-> NoThread]
    /\ mutex = 0
    /\ serialized = FALSE
    /\ current = 0
    /\ preemptions = 0

\* no ShaderUid object is under test while the checker runs
IdleUid == 
    /\ uid = [o \in {"A", "B"} |-> [values |-> ZeroValues(layout), HASH |-> 0]]
    /\ uidOp = [o \in {"A", "B"} |-> "none"]

Init ==
    /\ layout \in Layouts
    /\ InitChecker
    /\ IdleUid
    /\ IdleGen
    /\ IdleShader
    /\ IdleThreads

Next == Check \/ Invalidate

Spec == Init /\ [][Next]_vars

(***************************************************************************)
(* ShaderUid<uid_data>: the operations on one object                       *)
(***************************************************************************)
Objects == {"A", "B"}
MOD_ADLER == 65521

\* HashAdler32(data, len): two running sums modulo 65521, (sum2 << 16) | sum1
RECURSIVE AdlerSums(_, _, _, _, _)
AdlerSums(values, i, len, a, b) ==
    IF len = 0 THEN <<a, b>>
    ELSE LET a2 == (a + values[i]) % MOD_ADLER
             b2 == (b + a2) % MOD_ADLER
         IN AdlerSums(values, i + 1, len - 1, a2, b2)

HashAdler32(values, start, len) ==
    LET ab == AdlerSums(values, start, len, 1, 0)
    IN ab[2] * 65536 + ab[1]

\* the bytes of uid_data a generator assigns: byte 0 and the first meaningful
\* byte
Fields(l) == {0, l.start}

\* the constructor sets HASH only; the union is left as the storage holds it
FreshValues(l) ==
    { v \in [0..(l.size - 1) -> Bytes] : \A i \in 0..(l.size - 1) : i \notin Fields(l) => v[i] = 0 }

InitUid ==
    /\ uid \in [Objects -> { [values |-> v, HASH |-> 0] : v \in FreshValues(layout) }]
    /\ uidOp = [o \in Objects |-> "none"]

\* a generator assigns one field of GetUidData<T>()
WriteField(o, i, v) ==
    /\ uid' = [uid EXCEPT ![o].values[i] = v]
    /\ uidOp' = [uidOp EXCEPT ![o] = "write"]
    /\ UNCHANGED <<layout, checkerVars, genVars, shaderVars, threadVars>>

ClearUID(o) ==
    /\ uid' = [uid EXCEPT ![o].values = ZeroValues(layout)]
    /\ uidOp' = [uidOp EXCEPT ![o] = "clear"]
    /\ UNCHANGED <<layout, checkerVars, genVars, shaderVars, threadVars>>

CalculateUIDHash(o) ==
    /\ uid' = [uid EXCEPT ![o].HASH =
                  IF uid[o].HASH = 0
                  THEN HashAdler32(uid[o].values, layout.start, layout.num)
                  ELSE uid[o].HASH]
    /\ uidOp' = [uidOp EXCEPT ![o] = "hash"]
    /\ UNCHANGED <<layout, checkerVars, genVars, shaderVars, threadVars>>

\* ShaderUidHasher::operator()
ShaderUidHasher(k) == k.HASH

Write == \E o \in Objects, i \in Fields(layout), v \in Bytes : WriteField(o, i, v)
Clear == \E o \in Objects : ClearUID(o)
Hash == \E o \in Objects : CalculateUIDHash(o)

InitSpecUid ==
    /\ layout \in Layouts
    /\ InitChecker
    /\ InitUid
    /\ IdleGen
    /\ IdleShader
    /\ IdleThreads

NextUid == Write \/ Clear \/ Hash

SpecUid == InitSpecUid /\ [][NextUid]_vars

(***************************************************************************)
(* TextureConversionShader: the scratch buffer and the generator helpers   *)
(***************************************************************************)
\* the canary byte 0x7C
Canary == [fmt |-> "0x7C", a |-> "", b |-> "", n |-> 124, sep |-> ""]
\* the terminator sprintf writes after the text
NUL == [fmt |-> "", a |-> "", b |-> "", n |-> 0, sep |-> ""]

\* faulty variant: the canary is placed and looked for one cell early
CanaryIndex_OneShort(size) == size - 2

\* sizeof(text) - 1
CanaryIndex(size) == size - 1

\* the locales of the host; newlocale(LC_NUMERIC_MASK, "C", NULL) is "C"
Locales == {"C", "de_DE"}
DecimalPoint(loc) == IF loc = "C" THEN "." ELSE ","

RECURSIVE Pow2(_)
Pow2(n) == IF n = 0 THEN 1 ELSE 2 * Pow2(n - 1)

\* what %f prints for num/den: six decimals, rounded to nearest (ties to
\* even), as an integer number of millionths
FormatF(num, den) ==
    LET q == (num * 1000000) \div den
        r == (num * 1000000) % den
    IN IF 2 * r > den \/ (2 * r = den /\ q % 2 = 1) THEN q + 1 ELSE q

\* what an out-of-bounds write does to the statics that follow the buffer
Clobbers == {"none", "statics"}
GarbageCount == 9

\* the calls a generator makes, in order
W(s) == [k |-> "WRITE", fmt |-> s, a |-> "", b |-> "", n |-> 0]
Wr(s, prefix) == [k |-> "WRITE_reg", fmt |-> s, a |-> prefix, b |-> "C_COLORS", n |-> 0]
Wf(s, arg, format) == [k |-> "WRITE_f", fmt |-> s, a |-> arg, b |-> format, n |-> 0]
Ws(s, str) == [k |-> "WRITE_s", fmt |-> s, a |-> str, b |-> "", n |-> 0]
Wi(s, i) == [k |-> "WRITE_i", fmt |-> s, a |-> "", b |-> "", n |-> i]
Sample(colorComp, dest) == [k |-> "WriteSampleColor", fmt |-> "", a |-> colorComp, b |-> dest, n |-> 0]
Intensity(src, dest) == [k |-> "WriteColorToIntensity", fmt |-> "", a |-> src, b |-> dest, n |-> 0]
Inc == [k |-> "WriteIncrementSampleX", fmt |-> "", a |-> "", b |-> "", n |-> 0]
BitDepth(depth, src, dest) == [k |-> "WriteToBitDepth", fmt |-> "", a |-> src, b |-> dest, n |-> depth]
End == [k |-> "WriteEncoderEnd", fmt |-> "", a |-> "", b |-> "", n |-> 0]

\* one store through p: into the buffer, or past its end into the memory
\* that follows it
Put(g, i, c, clobber) ==
    IF i < g.size
    THEN [g EXCEPT !.text[i] = c]
    ELSE LET j == i - g.size + 1
             g2 == [g EXCEPT !.beyond = IF j <= Len(@) THEN [@ EXCEPT ![j] = c]
                                        ELSE Append(@, c)]
         IN IF clobber = "statics"
            THEN [g2 EXCEPT !.count = GarbageCount, !.flag = TRUE]
            ELSE g2

\* WRITE(p, ...): p += sprintf(p, ...) writes the text and its terminator
\* and advances p to the terminator
Sprintf(g, tok, clobber) ==
    LET g1 == Put(g, g.p, tok, clobber)
        g2 == Put(g1, g.p + 1, NUL, clobber)
    IN [g2 EXCEPT !.p = g.p + 1]

WriteSampleColor(g, colorComp, dest, clobber) ==
    Sprintf(g, [fmt |-> "  %s = tex2D(samp0, sampleUv + float2(%d.0f * (I_COLORS[0].x / I_COLORS[0].z), 0.0f)).%s;\n",
                a |-> dest, b |-> colorComp, n |-> g.count, sep |-> ""], clobber)

WriteColorToIntensity(g, src, dest, clobber) ==
    LET g1 == IF ~g.flag
              THEN [Sprintf(g, [fmt |-> "  float4 IntensityConst = float4(0.257f,0.504f,0.098f,0.0625f);\n",
                                a |-> "", b |-> "", n |-> 0, sep |-> ""], clobber)
                      EXCEPT !.flag = TRUE]
              ELSE g
    IN Sprintf(g1, [fmt |-> "  %s = dot(IntensityConst.rgb, %s.rgb);\n",
                    a |-> dest, b |-> src, n |-> 0, sep |-> ""], clobber)

\* faulty variant: the increment is lost
WriteIncrementSampleX_NoCount(g) == g

WriteIncrementSampleX(g) == [g EXCEPT !.count = g.count + 1]

\* faulty variant: the quotient is taken in integers, 255 / (1 << (8 - depth))
WriteToBitDepth_IntegerQuotient(g, depth, src, dest, loc, clobber) ==
    LET result == FormatF(255 \div Pow2(8 - depth), 1)
    IN Sprintf(g, [fmt |-> "  %s = floor(%s * %ff);\n",
                   a |-> dest, b |-> src, n |-> result, sep |-> DecimalPoint(loc)], clobber)

WriteToBitDepth(g, depth, src, dest, loc, clobber) ==
    LET result == FormatF(255, Pow2(8 - depth))
    IN Sprintf(g, [fmt |-> "  %s = floor(%s * %ff);\n",
                   a |-> dest, b |-> src, n |-> result, sep |-> DecimalPoint(loc)], clobber)

\* faulty variant: the epilogue resets the flag but not the sample counter
WriteEncoderEnd_KeepsCount(g, clobber) ==
    [Sprintf(g, [fmt |-> "}\n", a |-> "", b |-> "", n |-> 0, sep |-> ""], clobber)
       EXCEPT !.flag = FALSE]

\* faulty variant: the epilogue resets the sample counter but not the flag
WriteEncoderEnd_KeepsFlag(g, clobber) ==
    [Sprintf(g, [fmt |-> "}\n", a |-> "", b |-> "", n |-> 0, sep |-> ""], clobber)
       EXCEPT !.count = 0]

\* faulty variant: the epilogue leaves the sample counter and the flag as they are
WriteEncoderEnd_NoReset(g, clobber) ==
    Sprintf(g, [fmt |-> "}\n", a |-> "", b |-> "", n |-> 0, sep |-> ""], clobber)

WriteEncoderEnd(g, clobber) ==
    [Sprintf(g, [fmt |-> "}\n", a |-> "", b |-> "", n |-> 0, sep |-> ""], clobber)
       EXCEPT !.flag = FALSE, !.count = 0]

\* one call of a generator
Step(g, op, loc, clobber) ==
    CASE op.k = "WRITE" ->
           Sprintf(g, [fmt |-> op.fmt, a |-> "", b |-> "", n |-> 0, sep |-> ""], clobber)
      [] op.k = "WRITE_reg" ->
           Sprintf(g, [fmt |-> op.fmt, a |-> op.a, b |-> op.b, n |-> 0, sep |-> ""], clobber)
      [] op.k = "WRITE_f" ->
           Sprintf(g, [fmt |-> op.fmt, a |-> op.a, b |-> op.b, n |-> 0,
                       sep |-> DecimalPoint(loc)], clobber)
      [] op.k = "WRITE_s" ->
           Sprintf(g, [fmt |-> op.fmt, a |-> op.a, b |-> "", n |-> 0, sep |-> ""], clobber)
      [] op.k = "WRITE_i" ->
           Sprintf(g, [fmt |-> op.fmt, a |-> "", b |-> "", n |-> op.n, sep |-> ""], clobber)
      [] op.k = "WriteSampleColor" -> WriteSampleColor(g, op.a, op.b, clobber)
      [] op.k = "WriteColorToIntensity" -> WriteColorToIntensity(g, op.a, op.b, clobber)
      [] op.k = "WriteIncrementSampleX" -> WriteIncrementSampleX(g)
      [] op.k = "WriteToBitDepth" -> WriteToBitDepth(g, op.n, op.a, op.b, loc, clobber)
      [] op.k = "WriteEncoderEnd" -> WriteEncoderEnd(g, clobber)

RECURSIVE Run(_, _, _, _, _)
Run(ops, i, g, loc, clobber) ==
    IF i > Len(ops) THEN g
    ELSE LET g2 == Step(g, ops[i], loc, clobber)
         IN IF g2.p >= g.p THEN Run(ops, i + 1, g2, loc, clobber) ELSE g2

(***************************************************************************)
(* The generators: the calls each makes, in source order                   *)
(***************************************************************************)
\* WriteSwizzler, lines 39-80
WriteSwizzler(format) ==
    << Wr("uniform float4 I_COLORS[2] %s;\n", "c"),
       W("uniform sampler samp0 : register(s0);\n"),
       W("void main(\n"),
       W("  out float4 ocol0 : SV_Target,\n"),
       W("  in float2 uv0 : TEXCOORD0)\n"),
       W("{\n  float2 sampleUv;\n  float2 uv1 = floor(uv0);\n"),
       Wf("  uv1.x = uv1.x * %f;\n", "samples", format),
       Wf("  float xl =  floor(uv1.x / %f);\n", "blkW", format),
       Wf("  float xib = uv1.x - (xl * %f);\n", "blkW", format),
       Wf("  float yl = floor(uv1.y / %f);\n", "blkH", format),
       Wf("  float yb = yl * %f;\n", "blkH", format),
       W("  float yoff = uv1.y - yb;\n"),
       W("  float xp = uv1.x + (yoff * I_COLORS[1].x);\n"),
       Wf("  float xel = floor(xp / %f);\n", "blkW", format),
       Wf("  float xb = floor(xel / %f);\n", "blkH", format),
       Wf("  float xoff = xel - (xb * %f);\n", "blkH", format),
       Wf("  sampleUv.x = xib + (xb * %f);\n", "blkW", format),
       W("  sampleUv.y = yb + xoff;\n"),
       W("  sampleUv = sampleUv * I_COLORS[0].xy;\n"),
       W("  sampleUv = sampleUv + I_COLORS[1].zw;\n"),
       W("  sampleUv = sampleUv + float2(0.0f,1.0f);\n"),
       W("  sampleUv = sampleUv / I_COLORS[0].zw;\n") >>

\* Write32BitSwizzler, lines 84-125
Write32BitSwizzler(format) ==
    << Wr("uniform float4 I_COLORS[2] %s;\n", "c"),
       W("uniform sampler samp0 : register(s0);\n"),
       W("void main(\n"),
       W("  out float4 ocol0 : COLOR0,\n"),
       W("  in float2 uv0 : TEXCOORD0)\n"),
       W("{\n  float2 sampleUv;\n  float2 uv1 = floor(uv0);\n"),
       Wf("  float yl = floor(uv1.y / %f);\n", "blkH", format),
       Wf("  float yb = yl * %f;\n", "blkH", format),
       W("  float yoff = uv1.y - yb;\n"),
       W("  float xp = uv1.x + (yoff * I_COLORS[1].x);\n"),
       W("  float xel = floor(xp / 2.0f);\n"),
       Wf("  float xb = floor(xel / %f);\n", "blkH", format),
       Wf("  float xoff = xel - (xb * %f);\n", "blkH", format),
       W("  float x2 = uv1.x * 2.0f;\n"),
       Wf("  float xl = floor(x2 / %f);\n", "blkW", format),
       Wf("  float xib = x2 - (xl * %f);\n", "blkW", format),
       W("  float halfxb = floor(xb / 2.0f);\n"),
       Wf("  sampleUv.x = xib + (halfxb * %f);\n", "blkW", format),
       W("  sampleUv.y = yb + xoff;\n"),
       W("  sampleUv = sampleUv * I_COLORS[0].xy;\n"),
       W("  sampleUv = sampleUv + I_COLORS[1].zw;\n"),
       W("  sampleUv = sampleUv + float2(0.0f,1.0f);\n"),
       W("  sampleUv = sampleUv / I_COLORS[0].zw;\n") >>

\* WriteI8Encoder, lines 176-199
WriteI8Encoder ==
    WriteSwizzler("GX_TF_I8") \o
    << W("  float3 texSample;\n"),
       Sample("rgb", "texSample"),
       Intensity("texSample", "ocol0.b"),
       Inc,
       Sample("rgb", "texSample"),
       Intensity("texSample", "ocol0.g"),
       Inc,
       Sample("rgb", "texSample"),
       Intensity("texSample", "ocol0.r"),
       Inc,
       Sample("rgb", "texSample"),
       Intensity("texSample", "ocol0.a"),
       W("  ocol0.rgba += IntensityConst.aaaa;\n"),
       End >>

\* WriteI4Encoder, lines 201-247
WriteI4Encoder ==
    WriteSwizzler("GX_TF_I4") \o
    << W("  float3 texSample;\n"),
       W("  float4 color0;\n"),
       W("  float4 color1;\n"),
       Sample("rgb", "texSample"),
       Intensity("texSample", "color0.b"),
       Inc,
       Sample("rgb", "texSample"),
       Intensity("texSample", "color1.b"),
       Inc,
       Sample("rgb", "texSample"),
       Intensity("texSample", "color0.g"),
       Inc,
       Sample("rgb", "texSample"),
       Intensity("texSample", "color1.g"),
       Inc,
       Sample("rgb", "texSample"),
       Intensity("texSample", "color0.r"),
       Inc,
       Sample("rgb", "texSample"),
       Intensity("texSample", "color1.r"),
       Inc,
       Sample("rgb", "texSample"),
       Intensity("texSample", "color0.a"),
       Inc,
       Sample("rgb", "texSample"),
       Intensity("texSample", "color1.a"),
       W("  color0.rgba += IntensityConst.aaaa;\n"),
       W("  color1.rgba += IntensityConst.aaaa;\n"),
       BitDepth(4, "color0", "color0"),
       BitDepth(4, "color1", "color1"),
       W("  ocol0 = (color0 * 16.0f + color1) / 255.0f;\n"),
       End >>

\* WriteIA8Encoder, lines 249-266
WriteIA8Encoder ==
    WriteSwizzler("GX_TF_IA8") \o
    << W("  float4 texSample;\n"),
       Sample("rgba", "texSample"),
       W("  ocol0.b = texSample.a;\n"),
       Intensity("texSample", "ocol0.g"),
       Inc,
       Sample("rgba", "texSample"),
       W("  ocol0.r = texSample.a;\n"),
       Intensity("texSample", "ocol0.a"),
       W("  ocol0.ga += IntensityConst.aa;\n"),
       End >>

\* WriteIA4Encoder, lines 268-301
WriteIA4Encoder ==
    WriteSwizzler("GX_TF_IA4") \o
    << W("  float4 texSample;\n"),
       W("  float4 color0;\n"),
       W("  float4 color1;\n"),
       Sample("rgba", "texSample"),
       W("  color0.b = texSample.a;\n"),
       Intensity("texSample", "color1.b"),
       Inc,
       Sample("rgba", "texSample"),
       W("  color0.g = texSample.a;\n"),
       Intensity("texSample", "color1.g"),
       Inc,
       Sample("rgba", "texSample"),
       W("  color0.r = texSample.a;\n"),
       Intensity("texSample", "color1.r"),
       Inc,
       Sample("rgba", "texSample"),
       W("  color0.a = texSample.a;\n"),
       Intensity("texSample", "color1.a"),
       W("  color1.rgba += IntensityConst.aaaa;\n"),
       BitDepth(4, "color0", "color0"),
       BitDepth(4, "color1", "color1"),
       W("  ocol0 = (color0 * 16.0f + color1) / 255.0f;\n"),
       End >>

\* WriteRGB565Encoder, lines 303-325
WriteRGB565Encoder ==
    WriteSwizzler("GX_TF_RGB565") \o
    << Sample("rgb", "float3 texSample0"),
       Inc,
       Sample("rgb", "float3 texSample1"),
       W("  float2 texRs = float2(texSample0.r, texSample1.r);\n"),
       W("  float2 texGs = float2(texSample0.g, texSample1.g);\n"),
       W("  float2 texBs = float2(texSample0.b, texSample1.b);\n"),
       BitDepth(6, "texGs", "float2 gInt"),
       W("  float2 gUpper = floor(gInt / 8.0f);\n"),
       W("  float2 gLower = gInt - gUpper * 8.0f;\n"),
       BitDepth(5, "texRs", "ocol0.br"),
       W("  ocol0.br = ocol0.br * 8.0f + gUpper;\n"),
       BitDepth(5, "texBs", "ocol0.ga"),
       W("  ocol0.ga = ocol0.ga + gLower * 32.0f;\n"),
       W("  ocol0 = ocol0 / 255.0f;\n"),
       End >>

\* WriteRGB5A3Encoder, lines 327-392
WriteRGB5A3Encoder ==
    WriteSwizzler("GX_TF_RGB5A3") \o
    << W("  float4 texSample;\n"),
       W("  float color0;\n"),
       W("  float gUpper;\n"),
       W("  float gLower;\n"),
       Sample("rgba", "texSample"),
       W("if(texSample.a > 0.878f) {\n"),
       BitDepth(5, "texSample.g", "color0"),
       W("  gUpper = floor(color0 / 8.0f);\n"),
       W("  gLower = color0 - gUpper * 8.0f;\n"),
       BitDepth(5, "texSample.r", "ocol0.b"),
       W("  ocol0.b = ocol0.b * 4.0f + gUpper + 128.0f;\n"),
       BitDepth(5, "texSample.b", "ocol0.g"),
       W("  ocol0.g = ocol0.g + gLower * 32.0f;\n"),
       W("} else {\n"),
       BitDepth(4, "texSample.r", "ocol0.b"),
       BitDepth(4, "texSample.b", "ocol0.g"),
       BitDepth(3, "texSample.a", "color0"),
       W("ocol0.b = ocol0.b + color0 * 16.0f;\n"),
       BitDepth(4, "texSample.g", "color0"),
       W("ocol0.g = ocol0.g + color0 * 16.0f;\n"),
       W("}\n"),
       Inc,
       Sample("rgba", "texSample"),
       W("if(texSample.a > 0.878f) {\n"),
       BitDepth(5, "texSample.g", "color0"),
       W("  gUpper = floor(color0 / 8.0f);\n"),
       W("  gLower = color0 - gUpper * 8.0f;\n"),
       BitDepth(5, "texSample.r", "ocol0.r"),
       W("  ocol0.r = ocol0.r * 4.0f + gUpper + 128.0f;\n"),
       BitDepth(5, "texSample.b", "ocol0.a"),
       W("  ocol0.a = ocol0.a + gLower * 32.0f;\n"),
       W("} else {\n"),
       BitDepth(4, "texSample.r", "ocol0.r"),
       BitDepth(4, "texSample.b", "ocol0.a"),
       BitDepth(3, "texSample.a", "color0"),
       W("ocol0.r = ocol0.r + color0 * 16.0f;\n"),
       BitDepth(4, "texSample.g", "color0"),
       W("ocol0.a = ocol0.a + color0 * 16.0f;\n"),
       W("}\n"),
       W("  ocol0 = ocol0 / 255.0f;\n"),
       End >>

\* WriteRGBA8Encoder, lines 420-448
WriteRGBA8Encoder ==
    Write32BitSwizzler("GX_TF_RGBA8") \o
    << W("  float cl1 = xb - (halfxb * 2.0f);\n"),
       W("  float cl0 = 1.0f - cl1;\n"),
       W("  float4 texSample;\n"),
       W("  float4 color0;\n"),
       W("  float4 color1;\n"),
       Sample("rgba", "texSample"),
       W("  color0.b = texSample.a;\n"),
       W("  color0.g = texSample.r;\n"),
       W("  color1.b = texSample.g;\n"),
       W("  color1.g = texSample.b;\n"),
       Inc,
       Sample("rgba", "texSample"),
       W("  color0.r = texSample.a;\n"),
       W("  color0.a = texSample.r;\n"),
       W("  color1.r = texSample.g;\n"),
       W("  color1.a = texSample.b;\n"),
       W("  ocol0 = (cl0 * color0) + (cl1 * color1);\n"),
       End >>

\* WriteC4Encoder, lines 450-484
WriteC4Encoder(comp) ==
    WriteSwizzler("GX_CTF_R4") \o
    << W("  float4 color0;\n"),
       W("  float4 color1;\n"),
       Sample(comp, "color0.b"),
       Inc,
       Sample(comp, "color1.b"),
       Inc,
       Sample(comp, "color0.g"),
       Inc,
       Sample(comp, "color1.g"),
       Inc,
       Sample(comp, "color0.r"),
       Inc,
       Sample(comp, "color1.r"),
       Inc,
       Sample(comp, "color0.a"),
       Inc,
       Sample(comp, "color1.a"),
       BitDepth(4, "color0", "color0"),
       BitDepth(4, "color1", "color1"),
       W("  ocol0 = (color0 * 16.0f + color1) / 255.0f;\n"),
       End >>

\* WriteC8Encoder, lines 486-502
WriteC8Encoder(comp) ==
    WriteSwizzler("GX_CTF_R8") \o
    << Sample(comp, "ocol0.b"),
       Inc,
       Sample(comp, "ocol0.g"),
       Inc,
       Sample(comp, "ocol0.r"),
       Inc,
       Sample(comp, "ocol0.a"),
       End >>

\* WriteCC4Encoder, lines 504-535
WriteCC4Encoder(comp) ==
    WriteSwizzler("GX_CTF_RA4") \o
    << W("  float2 texSample;\n"),
       W("  float4 color0;\n"),
       W("  float4 color1;\n"),
       Sample(comp, "texSample"),
       W("  color0.b = texSample.x;\n"),
       W("  color1.b = texSample.y;\n"),
       Inc,
       Sample(comp, "texSample"),
       W("  color0.g = texSample.x;\n"),
       W("  color1.g = texSample.y;\n"),
       Inc,
       Sample(comp, "texSample"),
       W("  color0.r = texSample.x;\n"),
       W("  color1.r = texSample.y;\n"),
       Inc,
       Sample(comp, "texSample"),
       W("  color0.a = texSample.x;\n"),
       W("  color1.a = texSample.y;\n"),
       BitDepth(4, "color0", "color0"),
       BitDepth(4, "color1", "color1"),
       W("  ocol0 = (color0 * 16.0f + color1) / 255.0f;\n"),
       End >>

\* WriteCC8Encoder, lines 537-547
WriteCC8Encoder(comp) ==
    WriteSwizzler("GX_CTF_RA8") \o
    << Sample(comp, "ocol0.bg"),
       Inc,
       Sample(comp, "ocol0.ra"),
       End >>

\* WriteZ8Encoder, lines 549-571
WriteZ8Encoder(multiplier) ==
    WriteSwizzler("GX_CTF_Z8M") \o
    << W(" float depth;\n"),
       Sample("b", "depth"),
       Ws("ocol0.b = frac(depth * %s);\n", multiplier),
       Inc,
       Sample("b", "depth"),
       Ws("ocol0.g = frac(depth * %s);\n", multiplier),
       Inc,
       Sample("b", "depth"),
       Ws("ocol0.r = frac(depth * %s);\n", multiplier),
       Inc,
       Sample("b", "depth"),
       Ws("ocol0.a = frac(depth * %s);\n", multiplier),
       End >>

\* WriteZ16Encoder, lines 573-605
WriteZ16Encoder ==
    WriteSwizzler("GX_TF_Z16") \o
    << W("  float depth;\n"),
       W("  float3 expanded;\n"),
       Sample("b", "depth"),
       W("  depth *= 16777215.0f;\n"),
       W("  expanded.r = floor(depth / (256.0f * 256.0f));\n"),
       W("  depth -= expanded.r * 256.0f * 256.0f;\n"),
       W("  expanded.g = floor(depth / 256.0f);\n"),
       W("  ocol0.b = expanded.g / 255.0f;\n"),
       W("  ocol0.g = expanded.r / 255.0f;\n"),
       Inc,
       Sample("b", "depth"),
       W("  depth *= 16777215.0f;\n"),
       W("  expanded.r = floor(depth / (256.0f * 256.0f));\n"),
       W("  depth -= expanded.r * 256.0f * 256.0f;\n"),
       W("  expanded.g = floor(depth / 256.0f);\n"),
       W("  ocol0.r = expanded.g / 255.0f;\n"),
       W("  ocol0.a = expanded.r / 255.0f;\n"),
       End >>

\* WriteZ16LEncoder, lines 607-643
WriteZ16LEncoder ==
    WriteSwizzler("GX_CTF_Z16L") \o
    << W("  float depth;\n"),
       W("  float3 expanded;\n"),
       Sample("b", "depth"),
       W("  depth *= 16777215.0f;\n"),
       W("  expanded.r = floor(depth / (256.0f * 256.0f));\n"),
       W("  depth -= expanded.r * 256.0f * 256.0f;\n"),
       W("  expanded.g = floor(depth / 256.0f);\n"),
       W("  depth -= expanded.g * 256.0f;\n"),
       W("  expanded.b = depth;\n"),
       W("  ocol0.b = expanded.b / 255.0f;\n"),
       W("  ocol0.g = expanded.g / 255.0f;\n"),
       Inc,
       Sample("b", "depth"),
       W("  depth *= 16777215.0f;\n"),
       W("  expanded.r = floor(depth / (256.0f * 256.0f));\n"),
       W("  depth -= expanded.r * 256.0f * 256.0f;\n"),
       W("  expanded.g = floor(depth / 256.0f);\n"),
       W("  depth -= expanded.g * 256.0f;\n"),
       W("  expanded.b = depth;\n"),
       W("  ocol0.r = expanded.b / 255.0f;\n"),
       W("  ocol0.a = expanded.g / 255.0f;\n"),
       End >>

\* WriteZ24Encoder, lines 645-686
WriteZ24Encoder ==
    Write32BitSwizzler("GX_TF_Z24X8") \o
    << W("  float cl = xb - (halfxb * 2.0f);\n"),
       W("  float depth0;\n"),
       W("  float depth1;\n"),
       W("  float3 expanded0;\n"),
       W("  float3 expanded1;\n"),
       Sample("b", "depth0"),
       Inc,
       Sample("b", "depth1"),
       Wi("  depth%i *= 16777215.0f;\n", 0),
       Wi("  expanded%i.r = floor(depth%i / (256.0f * 256.0f));\n", 0),
       Wi("  depth%i -= expanded%i.r * 256.0f * 256.0f;\n", 0),
       Wi("  expanded%i.g = floor(depth%i / 256.0f);\n", 0),
       Wi("  depth%i -= expanded%i.g * 256.0f;\n", 0),
       Wi("  expanded%i.b = depth%i;\n", 0),
       Wi("  depth%i *= 16777215.0f;\n", 1),
       Wi("  expanded%i.r = floor(depth%i / (256.0f * 256.0f));\n", 1),
       Wi("  depth%i -= expanded%i.r * 256.0f * 256.0f;\n", 1),
       Wi("  expanded%i.g = floor(depth%i / 256.0f);\n", 1),
       Wi("  depth%i -= expanded%i.g * 256.0f;\n", 1),
       Wi("  expanded%i.b = depth%i;\n", 1),
       W("  if(cl > 0.5f) {\n"),
       W("     ocol0.b = expanded0.g / 255.0f;\n"),
       W("     ocol0.g = expanded0.b / 255.0f;\n"),
       W("     ocol0.r = expanded1.g / 255.0f;\n"),
       W("     ocol0.a = expanded1.b / 255.0f;\n"),
       W("  } else {\n"),
       W("     ocol0.b = 1.0f;\n"),
       W("     ocol0.g = expanded0.r / 255.0f;\n"),
       W("     ocol0.r = 1.0f;\n"),
       W("     ocol0.a = expanded1.r / 255.0f;\n"),
       W("  }\n"),
       End >>

(***************************************************************************)
(* GenerateEncodingShader                                                  *)
(***************************************************************************)
\* the switch of GenerateEncodingShader
Recognized ==
    { "GX_TF_I4", "GX_TF_I8", "GX_TF_IA4", "GX_TF_IA8", "GX_TF_RGB565",
      "GX_TF_RGB5A3", "GX_TF_RGBA8", "GX_CTF_R4", "GX_CTF_RA4", "GX_CTF_RA8",
      "GX_CTF_A8", "GX_CTF_R8", "GX_CTF_G8", "GX_CTF_B8", "GX_CTF_RG8",
      "GX_CTF_GB8", "GX_TF_Z8", "GX_TF_Z16", "GX_TF_Z24X8", "GX_CTF_Z4",
      "GX_CTF_Z8M", "GX_CTF_Z8L", "GX_CTF_Z16L" }
\* a format code with no case in the switch
Unrecognized == { "GX_TF_CMPR" }
Formats == Recognized \cup Unrecognized

Generator(format) ==
    CASE format = "GX_TF_I4" -> WriteI4Encoder
      [] format = "GX_TF_I8" -> WriteI8Encoder
      [] format = "GX_TF_IA4" -> WriteIA4Encoder
      [] format = "GX_TF_IA8" -> WriteIA8Encoder
      [] format = "GX_TF_RGB565" -> WriteRGB565Encoder
      [] format = "GX_TF_RGB5A3" -> WriteRGB5A3Encoder
      [] format = "GX_TF_RGBA8" -> WriteRGBA8Encoder
      [] format = "GX_CTF_R4" -> WriteC4Encoder("r")
      [] format = "GX_CTF_RA4" -> WriteCC4Encoder("ar")
      [] format = "GX_CTF_RA8" -> WriteCC8Encoder("ar")
      [] format = "GX_CTF_A8" -> WriteC8Encoder("a")
      [] format = "GX_CTF_R8" -> WriteC8Encoder("r")
      [] format = "GX_CTF_G8" -> WriteC8Encoder("g")
      [] format = "GX_CTF_B8" -> WriteC8Encoder("b")
      [] format = "GX_CTF_RG8" -> WriteCC8Encoder("rg")
      [] format = "GX_CTF_GB8" -> WriteCC8Encoder("gb")
      [] format = "GX_TF_Z8" -> WriteC8Encoder("b")
      [] format = "GX_TF_Z16" -> WriteZ16Encoder
      [] format = "GX_TF_Z24X8" -> WriteZ24Encoder
      [] format = "GX_CTF_Z4" -> WriteC4Encoder("b")
      [] format = "GX_CTF_Z8M" -> WriteZ8Encoder("256.0f")
      [] format = "GX_CTF_Z8L" -> WriteZ8Encoder("65536.0f")
      [] format = "GX_CTF_Z16L" -> WriteZ16LEncoder
      [] OTHER -> << >>

\* the string a caller reads at the returned pointer: the cells up to the
\* first terminator; when the buffer holds none, the read runs on into the
\* memory past it
RECURSIVE CString(_, _, _, _)
CString(cells, i, size, tail) ==
    IF i >= size THEN tail
    ELSE IF cells[i] = NUL THEN << >>
    ELSE << cells[i] >> \o CString(cells, i + 1, size, tail)

\* the out-of-bounds cells up to the terminator written last
Overflow(beyond) == IF beyond = << >> THEN << >> ELSE SubSeq(beyond, 1, Len(beyond) - 1)

NoGen == [format |-> "", ret |-> << >>, alerts |-> << >>, p |-> 0, overrun |-> FALSE]

\* what a read past the buffer finds there: what was written, a zero, or
\* something else
Readbacks == {"intact", "zero", "garbage"}
Garbage == [fmt |-> "?", a |-> "", b |-> "", n |-> 0, sep |-> ""]

\* the body of GenerateEncodingShader up to the canary check: the state the
\* generator leaves and the alerts raised
Body(format, clobber) ==
    LET active == "C"
        g0 == [text |-> [text EXCEPT ![CanaryIndex(textSize)] = Canary],
               size |-> textSize, beyond |-> << >>, p |-> 0,
               flag |-> IntensityConstantAdded, count |-> s_incrementSampleXCount]
        g1 == IF format \in Recognized
              THEN Run(Generator(format), 1, g0, active, clobber)
              ELSE g0
        alerts1 == IF format \in Recognized THEN << >>
                   ELSE << "Unknown texture copy format" >>
        alerts2 == IF g1.text[CanaryIndex(textSize)] # Canary
                   THEN Append(alerts1, "buffer too small, canary has been eaten")
                   ELSE alerts1
    IN [g |-> g1, alerts |-> alerts2]

\* PanicAlert returns to its caller: the locale is restored and text returned
Return(format, r, readback) ==
    LET old_locale == locale
        tail == CASE readback = "intact" -> Overflow(r.g.beyond)
                  [] readback = "zero" -> << >>
                  [] readback = "garbage" -> << Garbage >>
    IN /\ calls' = calls + 1
       /\ text' = r.g.text
       /\ IntensityConstantAdded' = r.g.flag
       /\ s_incrementSampleXCount' = r.g.count
       /\ locale' = old_locale
       /\ lastGen' = [format |-> format, ret |-> CString(r.g.text, 0, textSize, tail),
                      alerts |-> r.alerts, p |-> r.g.p, overrun |-> r.g.beyond # << >>]
       /\ returned' = [returned EXCEPT ![format] = @ \cup { lastGen'.ret }]
       /\ UNCHANGED <<layout, checkerVars, uidVars, textSize, shaderVars, threadVars>>

\* a call that stays inside the buffer has one outcome; one that writes past
\* it may hit the statics behind the buffer, and the memory read back past
\* the buffer may or may not hold what was written
GenerateEncodingShader(format) ==
    LET r == Body(format, "none")
    IN IF r.g.beyond = << >>
       THEN Return(format, r, "intact")
       ELSE \E clobber \in Clobbers, readback \in Readbacks :
               Return(format, Body(format, clobber), readback)

\* the host switches the locale of the thread between two calls
SetLocale ==
    /\ \E loc \in Locales : locale' = loc
    /\ locale' # locale
    /\ UNCHANGED <<layout, checkerVars, uidVars, textSize, text, IntensityConstantAdded,
                   s_incrementSampleXCount, lastGen, returned, calls, shaderVars, threadVars>>

Generate == \E format \in Formats : GenerateEncodingShader(format)

InitGen(size) ==
    /\ textSize = size
    /\ text = [i \in 0..(size - 1) |-> NUL]
    /\ IntensityConstantAdded = FALSE
    /\ s_incrementSampleXCount = 0
    /\ locale \in Locales
    /\ lastGen = NoGen
    /\ returned = [f \in Formats |-> {}]
    /\ calls = 0

InitSpecGen ==
    /\ layout \in {[size |-> 1, start |-> 0, num |-> 1]}
    /\ InitChecker
    /\ IdleUid
    /\ InitGen(TextSize)
    /\ IdleShader
    /\ IdleThreads

NextGen == (calls < MaxCalls /\ Generate) \/ SetLocale

SpecGen == InitSpecGen /\ [][NextGen]_vars

\* the same program with a scratch buffer too small for some generators
InitSpecCanary ==
    /\ layout \in {[size |-> 1, start |-> 0, num |-> 1]}
    /\ InitChecker
    /\ IdleUid
    /\ \E size \in SmallTextSizes : InitGen(size)
    /\ IdleShader
    /\ IdleThreads

NextCanary == (calls < MaxCanaryCalls /\ Generate) \/ SetLocale

SpecCanary == InitSpecCanary /\ [][NextCanary]_vars

(***************************************************************************)
(* The bit-depth quantizer: the statement WriteToBitDepth emits, evaluated  *)
(* on one channel value (specification SpecQuant).                          *)
(***************************************************************************)
\* u8 depth, as the generators and the claim use it
Depths == 1..8
\* normalized channel values: the 8-bit levels k/255, and one half
ChannelValues == { [num |-> k, den |-> 255] : k \in 0..255 } \cup { [num |-> 1, den |-> 2] }

\* floor(src * <literal>f) for src = num/den and the literal printed by %f,
\* an integer number of millionths
FloorTimes(num, den, millionths) ==
    LET whole == millionths \div 1000000
        frac == millionths % 1000000
    IN (num * whole + (num * frac) \div 1000000) \div den

\* WriteToBitDepth(p, depth, src, dest) with p at the start of text, and the
\* level the emitted statement assigns to dest when src holds value
Quantize(depth, value) ==
    LET g0 == [text |-> text, size |-> textSize, beyond |-> << >>, p |-> 0,
               flag |-> IntensityConstantAdded, count |-> s_incrementSampleXCount]
        g1 == WriteToBitDepth(g0, depth, "src", "dest", "C", "none")
        statement == g1.text[0]
    IN /\ ~quant.emitted
       /\ text' = g1.text
       /\ quant' = [depth |-> depth, num |-> value.num, den |-> value.den,
                    emitted |-> TRUE, multiplier |-> statement.n,
                    level |-> FloorTimes(value.num, value.den, statement.n)]
       /\ UNCHANGED <<layout, checkerVars, uidVars, textSize, IntensityConstantAdded,
                      s_incrementSampleXCount, locale, lastGen, returned, calls,
                      pixel, threadVars>>

InitSpecQuant ==
    /\ layout \in {[size |-> 1, start |-> 0, num |-> 1]}
    /\ InitChecker
    /\ IdleUid
    /\ InitGen(TextSize)
    /\ quant \in { [NoQuant EXCEPT !.depth = depth, !.num = value.num, !.den = value.den] :
                      depth \in Depths, value \in ChannelValues }
    /\ pixel = NoPixel
    /\ IdleThreads

NextQuant == Quantize(quant.depth, [num |-> quant.num, den |-> quant.den])

SpecQuant == InitSpecQuant /\ [][NextQuant]_vars

(***************************************************************************)
(* The program WriteZ24Encoder emits, evaluated on two sampled depths      *)
(* (specification SpecZ24).                                                *)
(***************************************************************************)
\* the column of the block the pixel lies in (xb of the swizzler) is at most
MaxBlockColumn == 3
\* sampled depths, as 24-bit integers d (the texel holds d / 16777215)
DepthSamples == { 0, 66051, 263430, 16777215 }

UnitDepth == 16777215
Unwritten == 0 - 1

\* the float variables of the program the evaluation follows
Env0(samples, xb) ==
    [samples |-> samples, xb |-> xb, halfxb |-> 0, cl |-> 0,
     depth |-> << [num |-> 0, den |-> 1], [num |-> 0, den |-> 1] >>,
     expanded |-> << [r |-> 0, g |-> 0, b |-> 0], [r |-> 0, g |-> 0, b |-> 0] >>,
     ocol0 |-> [b |-> Unwritten, g |-> Unwritten, r |-> Unwritten, a |-> Unwritten],
     active |-> TRUE, taken |-> "", conditionals |-> 0]

\* colours are held in 255ths
Assign(e, channel, v) == IF e.active THEN [e EXCEPT !.ocol0[channel] = v] ELSE e

\* one statement of the emitted program
Exec(e, s) ==
    LET i == s.n + 1
    IN CASE s.fmt = "  float halfxb = floor(xb / 2.0f);\n" ->
              [e EXCEPT !.halfxb = e.xb \div 2]
         [] s.fmt = "  float cl = xb - (halfxb * 2.0f);\n" ->
              [e EXCEPT !.cl = e.xb - e.halfxb * 2]
         [] s.fmt = "  %s = tex2D(samp0, sampleUv + float2(%d.0f * (I_COLORS[0].x / I_COLORS[0].z), 0.0f)).%s;\n" ->
              LET dest == IF s.a = "depth0" THEN 1 ELSE 2
              IN [e EXCEPT !.depth[dest] = [num |-> e.samples[s.n + 1], den |-> UnitDepth]]
         [] s.fmt = "  depth%i *= 16777215.0f;\n" ->
              [e EXCEPT !.depth[i] = IF @.den = UnitDepth THEN [num |-> @.num, den |-> 1]
                                     ELSE [num |-> @.num * UnitDepth, den |-> @.den]]
         [] s.fmt = "  expanded%i.r = floor(depth%i / (256.0f * 256.0f));\n" ->
              [e EXCEPT !.expanded[i].r = e.depth[i].num \div (e.depth[i].den * 256 * 256)]
         [] s.fmt = "  depth%i -= expanded%i.r * 256.0f * 256.0f;\n" ->
              [e EXCEPT !.depth[i].num = @ - e.expanded[i].r * 256 * 256 * e.depth[i].den]
         [] s.fmt = "  expanded%i.g = floor(depth%i / 256.0f);\n" ->
              [e EXCEPT !.expanded[i].g = e.depth[i].num \div (e.depth[i].den * 256)]
         [] s.fmt = "  depth%i -= expanded%i.g * 256.0f;\n" ->
              [e EXCEPT !.depth[i].num = @ - e.expanded[i].g * 256 * e.depth[i].den]
         [] s.fmt = "  expanded%i.b = depth%i;\n" ->
              [e EXCEPT !.expanded[i].b = e.depth[i].num \div e.depth[i].den]
         [] s.fmt = "  if(cl > 0.5f) {\n" ->
              [e EXCEPT !.conditionals = @ + 1,
                        !.taken = IF 2 * e.cl > 1 THEN "then" ELSE "else",
                        !.active = 2 * e.cl > 1]
         [] s.fmt = "  } else {\n" -> [e EXCEPT !.active = (e.taken = "else")]
         [] s.fmt = "  }\n" -> [e EXCEPT !.active = TRUE]
         [] s.fmt = "     ocol0.b = expanded0.g / 255.0f;\n" -> Assign(e, "b", e.expanded[1].g)
         [] s.fmt = "     ocol0.g = expanded0.b / 255.0f;\n" -> Assign(e, "g", e.expanded[1].b)
         [] s.fmt = "     ocol0.r = expanded1.g / 255.0f;\n" -> Assign(e, "r", e.expanded[2].g)
         [] s.fmt = "     ocol0.a = expanded1.b / 255.0f;\n" -> Assign(e, "a", e.expanded[2].b)
         [] s.fmt = "     ocol0.b = 1.0f;\n" -> Assign(e, "b", 255)
         [] s.fmt = "     ocol0.g = expanded0.r / 255.0f;\n" -> Assign(e, "g", e.expanded[1].r)
         [] s.fmt = "     ocol0.r = 1.0f;\n" -> Assign(e, "r", 255)
         [] s.fmt = "     ocol0.a = expanded1.r / 255.0f;\n" -> Assign(e, "a", e.expanded[2].r)
         [] OTHER -> e

RECURSIVE ExecAll(_, _, _)
ExecAll(program, k, e) ==
    IF k > Len(program) THEN e ELSE ExecAll(program, k + 1, Exec(e, program[k]))

\* the text returned for GX_TF_Z24X8, run for one pixel
RunZ24Program(samples, xb) ==
    /\ lastGen.format = "GX_TF_Z24X8"
    /\ LET e == ExecAll(lastGen.ret, 1, Env0(samples, xb))
       IN pixel' = [format |-> lastGen.format, depth |-> samples, xb |-> xb,
                    taken |-> e.taken, expanded |-> e.expanded, ocol0 |-> e.ocol0,
                    conditionals |-> e.conditionals]
    /\ UNCHANGED <<layout, checkerVars, uidVars, genVars, quant, threadVars>>

GenerateZ24 == calls < MaxCalls /\ GenerateEncodingShader("GX_TF_Z24X8")

EvaluateZ24 ==
    \E d0 \in DepthSamples, d1 \in DepthSamples, xb \in 0..MaxBlockColumn :
        RunZ24Program(<< d0, d1 >>, xb)

InitSpecZ24 ==
    /\ layout \in {[size |-> 1, start |-> 0, num |-> 1]}
    /\ InitChecker
    /\ IdleUid
    /\ InitGen(TextSize)
    /\ IdleShader
    /\ IdleThreads

NextZ24 == GenerateZ24 \/ EvaluateZ24

SpecZ24 == InitSpecZ24 /\ [][NextZ24]_vars

(***************************************************************************)
(* GenerateEncodingShader called from two threads, one generator call at a *)
(* time (specification SpecThreads). text, IntensityConstantAdded and      *)
(* s_incrementSampleXCount are shared; p is a local of each call. Without  *)
(* the lock the accesses race: the interleavings of whole generator calls  *)
(* are among the outcomes.                                                 *)
(***************************************************************************)
\* how often a thread may be interrupted inside a call
MaxPreemptions == 2
\* the format codes the two threads ask for
ThreadFormats == { "GX_TF_I8", "GX_CTF_R8", "GX_TF_CMPR" }

\* the scheduler runs thread t next; taking over from a thread that is
\* inside a call is a preemption
Schedule(t) ==
    LET preempts == current \in Threads /\ current # t /\ thread[current].pc = "run"
    IN /\ preempts => preemptions < MaxPreemptions
       /\ preemptions' = IF preempts THEN preemptions + 1 ELSE preemptions
       /\ current' = t

\* the caller takes the lock around the call when the callers serialize
Lock(t) ==
    /\ serialized => mutex = 0
    /\ mutex' = (IF serialized THEN t ELSE mutex)

Unlock(t) == mutex' = (IF serialized THEN 0 ELSE mutex)

\* the text this call returns when nothing else runs until it returns
Alone(format) == CString(Body(format, "none").g.text, 0, textSize, << >>)

\* lines 688-696: the canary is written and p set to text
Enter(t, format) ==
    /\ thread[t].pc = "idle"
    /\ Schedule(t)
    /\ Lock(t)
    /\ text' = [text EXCEPT ![CanaryIndex(textSize)] = Canary]
    /\ thread' = [thread EXCEPT ![t] = [NoThread EXCEPT !.pc = "run", !.format = format,
                                                       !.i = 1, !.p = 0,
                                                       !.alone = Alone(format)]]
    /\ UNCHANGED <<layout, checkerVars, uidVars, textSize, IntensityConstantAdded,
                   s_incrementSampleXCount, locale, lastGen, returned, calls,
                   shaderVars, serialized>>

\* the next call the generator of the thread's format makes
GeneratorCall(t) ==
    LET ops == Generator(thread[t].format)
        g == [text |-> text, size |-> textSize, beyond |-> << >>, p |-> thread[t].p,
              flag |-> IntensityConstantAdded, count |-> s_incrementSampleXCount]
    IN /\ thread[t].pc = "run"
       /\ thread[t].i <= Len(ops)
       /\ Schedule(t)
       /\ LET g2 == Step(g, ops[thread[t].i], "C", "none")
          IN /\ text' = g2.text
             /\ IntensityConstantAdded' = g2.flag
             /\ s_incrementSampleXCount' = g2.count
             /\ thread' = [thread EXCEPT ![t].i = @ + 1, ![t].p = g2.p]
       /\ UNCHANGED <<layout, checkerVars, uidVars, textSize, locale, lastGen, returned,
                      calls, shaderVars, mutex, serialized>>

\* lines 769-781: the default case, the canary check and return text
Leave(t) ==
    LET alerts1 == IF thread[t].format \in Recognized THEN << >>
                   ELSE << "Unknown texture copy format" >>
        alerts2 == IF text[CanaryIndex(textSize)] # Canary
                   THEN Append(alerts1, "buffer too small, canary has been eaten")
                   ELSE alerts1
    IN /\ thread[t].pc = "run"
       /\ thread[t].i > Len(Generator(thread[t].format))
       /\ Schedule(t)
       /\ Unlock(t)
       /\ thread' = [thread EXCEPT ![t].pc = "returned",
                                   ![t].ret = CString(text, 0, textSize, << >>),
                                   ![t].alerts = alerts2]
       /\ UNCHANGED <<layout, checkerVars, uidVars, genVars, shaderVars, serialized>>

Call == \E t \in Threads, format \in ThreadFormats : Enter(t, format)
Run1 == \E t \in Threads : GeneratorCall(t)
Done == \E t \in Threads : Leave(t)

InitSpecThreads ==
    /\ layout \in {[size |-> 1, start |-> 0, num |-> 1]}
    /\ InitChecker
    /\ IdleUid
    /\ InitGen(TextSize)
    /\ locale = "C"
    /\ IdleShader
    /\ thread = [t \in Threads |-> NoThread]
    /\ mutex = 0
    /\ serialized \in BOOLEAN
    /\ current = 0
    /\ preemptions = 0

NextThreads == Call \/ Run1 \/ Done

SpecThreads == InitSpecThreads /\ [][NextThreads]_vars

(***************************************************************************)
(* Properties of UidChecker (specification Spec).                          *)
(***************************************************************************)
\* the positions of m_uids that compare equal to u, and the cached text of u
Positions(u) == { i \in 1..Len(m_uids) : UidEq(layout, m_uids[i], u) }
EqualKeys(m, u) == { k \in DOMAIN m : UidEq(layout, k, u) }
Stored(u) == m_shaders[CHOOSE k \in EqualKeys(m_shaders, u) : TRUE]
CeilDiv4(n) == (n + 3) \div 4

\* C1: after a call that detected a collision, the cache entry of that
\* fingerprint holds the text of that call (the most recently produced one).
C1_CollisionStoresNewText ==
    (lastCall.op = "Add" /\ lastCall.dumped) => Stored(lastCall.uid) = lastCall.text

\* C2 (as stated): the second of two calls with the same fingerprint and
\* different text, the first being the first occurrence, writes exactly one
\* dump (the first none) whose new section is the second text, whose old
\* section is the first text, and whose hex dump has ceil(dataSize/4) groups
\* of 4 words each.
C2_GroupsOfFourEach ==
    (lastCall.op = "Add" /\ lastCall.second /\ lastCall.dumped) =>
        /\ Len(lastDump.groups) = CeilDiv4(GetUidDataSize(layout))
        /\ \A g \in 1..Len(lastDump.groups) : Len(lastDump.groups[g].words) = 4

\* C2 (amended): as above, but the hex dump holds dataSize words in
\* ceil(dataSize/4) groups: 4 words in every group except the last, which
\* holds the remaining dataSize - 4*(ceil(dataSize/4) - 1) words.
C2_OneDumpWithGroups ==
    [][ (lastCall.first /\ lastCall'.op = "Add"
            /\ UidEq(layout, lastCall.uid, lastCall'.uid)
            /\ lastCall'.text # lastCall.text) =>
          LET n == GetUidDataSize(layout)
              gs == lastDump'.groups
          IN /\ ~lastCall.dumped
             /\ lastCall'.dumped
             /\ num_failures' = num_failures + 1
             /\ lastDump'.n = num_failures'
             /\ lastDump'.new = lastCall'.text
             /\ lastDump'.old = lastCall.text
             /\ Len(gs) = CeilDiv4(n)
             /\ \A g \in 1..Len(gs) :
                   Len(gs[g].words) = IF g < Len(gs) THEN 4 ELSE n - 4 * (Len(gs) - 1)
      ]_vars

\* C2 witness: a second call with different text wrote a dump whose last
\* group is a partial one
C2_Witness ==
    /\ lastCall.op = "Add" /\ lastCall.second /\ lastCall.dumped
    /\ lastDump.n = 1
    /\ Len(lastDump.groups) = 2
    /\ Len(lastDump.groups[2].words) = 1

\* C3: a call with a fingerprint and the text the cache holds for it (or
\* with a fingerprint not yet cached) writes no dump and no error log and
\* leaves exactly one entry for the fingerprint in the sequence and in the
\* mapping; when the fingerprint was cached already the cache is unchanged.
C3_IdenticalTextIdempotent ==
    [][ (lastCall'.op = "Add"
            /\ (Positions(lastCall'.uid) = {} \/ Stored(lastCall'.uid) = lastCall'.text)) =>
          /\ ~lastCall'.dumped
          /\ num_failures' = num_failures
          /\ error_log' = error_log
          /\ lastDump' = lastDump
          /\ Cardinality({ i \in 1..Len(m_uids') : UidEq(layout, m_uids'[i], lastCall'.uid) }) = 1
          /\ Cardinality(EqualKeys(m_shaders', lastCall'.uid)) = 1
          /\ (Positions(lastCall'.uid) # {} => m_uids' = m_uids /\ m_shaders' = m_shaders)
      ]_vars

\* C3 witness: a repeated call with identical text, made with an object
\* that differs from the cached one outside the meaningful range
C3_Witness ==
    /\ lastCall.op = "Add" /\ lastCall.second /\ ~lastCall.first /\ ~lastCall.dumped
    /\ Positions(lastCall.uid) # {}
    /\ \A i \in Positions(lastCall.uid) : m_uids[i] # lastCall.uid

\* C4: m_uids holds no two elements that compare equal, and the fingerprints
\* of m_uids are exactly the keys of m_shaders.
C4_OneEntryPerFingerprint ==
    /\ \A i, j \in 1..Len(m_uids) : UidEq(layout, m_uids[i], m_uids[j]) => i = j
    /\ \A i \in 1..Len(m_uids) : EqualKeys(m_shaders, m_uids[i]) # {}
    /\ \A k \in DOMAIN m_shaders : Positions(k) # {}
    /\ \A k1, k2 \in DOMAIN m_shaders : UidEq(layout, k1, k2) => k1 = k2

\* C4 witness: two fingerprints are cached and the last call, made with an
\* alias of a cached object, found it
C4_Witness ==
    /\ Len(m_uids) = 2
    /\ lastCall.op = "Add" /\ ~lastCall.first
    /\ \A i \in 1..Len(m_uids) : m_uids[i] # lastCall.uid

\* C5: Invalidate leaves the sequence and the mapping empty, and the first
\* call after it inserts its entry and writes no dump, whatever was cached
\* before.
C5_InvalidateThenFirstOccurrence ==
    [][ /\ (lastCall'.op = "Invalidate" => m_uids' = << >> /\ DOMAIN m_shaders' = {})
        /\ (lastCall.op = "Invalidate" /\ lastCall'.op = "Add") =>
              /\ lastCall'.first /\ ~lastCall'.dumped
              /\ num_failures' = num_failures /\ error_log' = error_log
              /\ lastDump' = lastDump
              /\ m_uids' = << lastCall'.uid >>
              /\ DOMAIN m_shaders' = { lastCall'.uid }
              /\ m_shaders'[lastCall'.uid] = lastCall'.text
      ]_vars

\* C5 witness: a fingerprint that collided earlier with another text cached
\* is, after an Invalidate, the only entry and was inserted without a dump
C5_Witness ==
    /\ lastCall.op = "Add" /\ lastCall.first
    /\ Len(m_uids) = 1
    /\ lastDump.n >= 1
    /\ UidEq(layout, lastDump.uid, lastCall.uid)
    /\ lastDump.old # lastCall.text

(***************************************************************************)
(* Properties of ShaderUid (specification SpecUid).                        *)
(***************************************************************************)
\* C6: after ClearUID every byte of the record is zero and the cached hash
\* is back to 0, the not-yet-computed value.
C6_ClearResetsHash ==
    \A o \in Objects :
        uidOp[o] = "clear" =>
            /\ \A i \in 0..(layout.size - 1) : uid[o].values[i] = 0
            /\ uid[o].HASH = 0

\* C7: two fingerprints with identical meaningful byte ranges compare equal
\* and, when CalculateUIDHash was the last call on both, have equal hashes
\* (unless the checksum is 0).
C7_EqualImpliesEqualHash ==
    (\A i \in Range(layout) : uid["A"].values[i] = uid["B"].values[i]) =>
        /\ UidEq(layout, uid["A"], uid["B"])
        /\ ~UidNeq(layout, uid["A"], uid["B"])
        /\ (uidOp["A"] = "hash" /\ uidOp["B"] = "hash"
              /\ HashAdler32(uid["A"].values, layout.start, layout.num) # 0) =>
                ShaderUidHasher(uid["A"]) = ShaderUidHasher(uid["B"])
(***************************************************************************)
(* Properties of GenerateEncodingShader (specifications SpecGen and        *)
(* SpecCanary).                                                            *)
(***************************************************************************)
\* the text a first call in a fresh process returns for a format
Reference(format) ==
    LET g0 == [text |-> [i \in 0..(TextSize - 1) |-> NUL], size |-> TextSize,
               beyond |-> << >>, p |-> 0, flag |-> FALSE, count |-> 0]
        g1 == Run(Generator(format), 1, g0, "C", "none")
    IN CString(g1.text, 0, TextSize, << >>)

Raised(msg) == \E i \in 1..Len(lastGen.alerts) : lastGen.alerts[i] = msg

\* C8: the text returned for a recognized format depends on the format
\* alone: every call returns the text a first call in a fresh process
\* returns, so no format has had two different texts returned, whatever
\* calls came before and whatever locale the host has set.
C8_TextIsFunctionOfFormat ==
    /\ \A f \in Recognized : Cardinality(returned[f]) <= 1
    /\ lastGen.format \in Recognized => lastGen.ret = Reference(lastGen.format)

\* C8 witness: a short program was generated after a longer one that used
\* the sample counter and the intensity constant, under a host locale with
\* a decimal comma
C8_Witness ==
    /\ calls = 2
    /\ lastGen.format = "GX_CTF_RA8"
    /\ returned["GX_TF_I4"] # {}
    /\ locale = "de_DE"

\* C9: a call with a format code that has no generator raises the fatal
\* diagnostic and returns no shader text, not even the text an earlier call
\* left in the scratch buffer.
C9_UnrecognizedReturnsNoText ==
    lastGen.format \in Unrecognized =>
        /\ Raised("Unknown texture copy format")
        /\ lastGen.ret = << >>

QuantLevels ==
    /\ quant.level \in 0..(Pow2(quant.depth) - 1)
    /\ (quant.num = quant.den => quant.level = Pow2(quant.depth) - 1)
    /\ (quant.depth = 5 /\ quant.num = quant.den => quant.level = 31)
    /\ (quant.depth = 8 /\ 2 * quant.num = quant.den => quant.level = 127)

Channels == {"b", "g", "r", "a"}
High(i) == pixel.depth[i] \div 65536
Middle(i) == (pixel.depth[i] \div 256) % 256
Low(i) == pixel.depth[i] % 256

\* the four channels hold the high and middle bytes of the two samples
WritesUpper16 ==
    \E h0, m0, h1, m1 \in Channels :
        /\ Cardinality({h0, m0, h1, m1}) = 4
        /\ pixel.ocol0[h0] = High(1) /\ pixel.ocol0[m0] = Middle(1)
        /\ pixel.ocol0[h1] = High(2) /\ pixel.ocol0[m1] = Middle(2)

\* two channels hold the low bytes of the two samples
WritesLower8 ==
    \E l0, l1 \in Channels :
        /\ l0 # l1
        /\ pixel.ocol0[l0] = Low(1) /\ pixel.ocol0[l1] = Low(2)

\* C12: in the program for the 24-bit depth format each sampled depth d is
\* split into base-256 digits high, middle and low (d = high*65536 +
\* middle*256 + low, each in 0..255), there is one conditional on the
\* selector exceeding 0.5, one of its paths writes the upper 16 bits (high
\* and middle bytes) of the two samples and the other the lower 8 bits (low
\* bytes).
C12_Z24UpperAndLowerPaths ==
    pixel.format = "GX_TF_Z24X8" =>
        /\ \A i \in 1..2 :
              /\ pixel.expanded[i].r = High(i) /\ pixel.expanded[i].r \in 0..255
              /\ pixel.expanded[i].g = Middle(i) /\ pixel.expanded[i].g \in 0..255
              /\ pixel.expanded[i].b = Low(i) /\ pixel.expanded[i].b \in 0..255
              /\ pixel.depth[i] = pixel.expanded[i].r * 65536 + pixel.expanded[i].g * 256
                                  + pixel.expanded[i].b
        /\ pixel.conditionals = 1
        /\ pixel.taken = (IF pixel.xb % 2 = 1 THEN "then" ELSE "else")
        /\ \/ /\ pixel.taken = "then" => WritesUpper16
              /\ pixel.taken = "else" => WritesLower8
           \/ /\ pixel.taken = "then" => WritesLower8
              /\ pixel.taken = "else" => WritesUpper16

(***************************************************************************)
(* Properties of the generator state (specification SpecGen).              *)
(***************************************************************************)
\* C13: whenever no GenerateEncodingShader call is in progress (before and
\* after every call of any sequence of calls, with recognized and
\* unrecognized format codes), s_incrementSampleXCount is 0 and
\* IntensityConstantAdded is false.
C13_StaticsResetBetweenCalls ==
    /\ s_incrementSampleXCount = 0
    /\ IntensityConstantAdded = FALSE

\* after a call for a format that uses the counter and the flag, then a
\* call with an unrecognized code
C13_Witness ==
    /\ calls >= 2
    /\ lastGen.format \in Unrecognized
    /\ returned["GX_TF_I4"] # {}
    /\ \E k \in 1..Len(lastGen.ret) :
          /\ lastGen.ret[k].fmt = "  float4 IntensityConst = float4(0.257f,0.504f,0.098f,0.0625f);\n"
          /\ \E j \in (k + 1)..Len(lastGen.ret) : lastGen.ret[j].n = 7
    /\ s_incrementSampleXCount = 0
    /\ IntensityConstantAdded = FALSE

(***************************************************************************)
(* Properties of the sampling statements (specification SpecGen).          *)
(***************************************************************************)
SampleStatement == "  %s = tex2D(samp0, sampleUv + float2(%d.0f * (I_COLORS[0].x / I_COLORS[0].z), 0.0f)).%s;\n"
IsSample(tok) == tok.fmt = SampleStatement
\* the sampling statements of a program, in emission order
Samplings(program) == SelectSeq(program, IsSample)
\* the calls of a generator that sample or advance the sample index
IsSampleOrIncrement(op) == op.k \in {"WriteSampleColor", "WriteIncrementSampleX"}
SampleCalls(format) == SelectSeq(Generator(format), IsSampleOrIncrement)

\* C14: in the program of every recognized format the i-th sampling
\* statement (from 0) has offset multiplier i, so the offsets are 0, 1, ...,
\* n-1 without repeat or gap: the generator calls WriteIncrementSampleX
\* exactly once between two consecutive WriteSampleColor calls.
C14_SampleOffsetsCountUp ==
    lastGen.format \in Recognized =>
        LET s == Samplings(lastGen.ret)
            c == SampleCalls(lastGen.format)
        IN /\ \A i \in 1..Len(s) : s[i].n = i - 1
           /\ Len(c) = 2 * Len(s) - 1
           /\ \A j \in 1..Len(c) :
                 c[j].k = (IF j % 2 = 1 THEN "WriteSampleColor" ELSE "WriteIncrementSampleX")

\* a program with eight sampling statements, returned by a second call
C14_Witness ==
    /\ calls >= 2
    /\ lastGen.format = "GX_TF_I4"
    /\ Len(Samplings(lastGen.ret)) = 8
    /\ Samplings(lastGen.ret)[8].n = 7

(***************************************************************************)
(* Properties of the hex dump reads (specification Spec).                  *)
(***************************************************************************)
\* C16: when AddToIndexAndCheck writes the collision dump, every 32-bit word
\* it reads lies inside the uid data: for each word index i read, the bytes
\* 4*i .. 4*i+3 are within the GetUidDataSize() bytes of the record.
C16_DumpReadsInsideRecord ==
    lastCall.dumped =>
        \A g \in 1..Len(lastDump.groups) :
            \A k \in 1..Len(lastDump.groups[g].words) :
                LET i == lastDump.groups[g].words[k].i
                IN /\ 4 * i >= 0
                   /\ 4 * i + 3 < GetUidDataSize(layout)

(***************************************************************************)
(* Properties of concurrent calls (specification SpecThreads).             *)
(***************************************************************************)
\* thread t has returned from its call with text other than the text the
\* call returns when it runs alone
Diverged(t) ==
    /\ thread[t].pc = "returned"
    /\ \/ thread[t].ret # thread[t].alone
       \/ thread[t].format \in Recognized /\ thread[t].ret # Reference(thread[t].format)

\* C15: two GenerateEncodingShader calls on two threads are safe only when
\* serialized: with a lock held for the whole call no call returns text
\* other than the text it returns when run alone (and the calls never
\* overlap); without the lock such a return is reachable (C15_Witness).
C15_SerializedCallsReturnOwnText ==
    serialized =>
        /\ \A t \in Threads : ~Diverged(t)
        /\ Cardinality({ t \in Threads : thread[t].pc = "run" }) <= 1
        /\ \A t \in Threads : thread[t].pc = "run" => mutex = t

\* without the lock: a call for a recognized format has returned, with the
\* canary intact and no alert, text that is not the program of its format,
\* because the other thread's call ran in between
C15_Witness ==
    /\ ~serialized
    /\ preemptions > 0
    /\ \E t \in Threads :
          /\ thread[t].format \in Recognized
          /\ Diverged(t)
          /\ thread[t].ret # thread[t].alone
          /\ thread[t].ret # Reference(thread[t].format)
          /\ thread[t].alerts = << >>
====
